---- MODULE Spec2Model ----
(***************************************************************************)
(* Model of backend/main.py: the work-calendar clipping function, the      *)
(* status timeline accumulator, the period/item aggregator (process_data)  *)
(* and the report builder (save_to_excel_multi).                           *)
(*                                                                         *)
(* Time.  A datetime is a record [d, s, off]: wall-clock day number d      *)
(* (day 0 is Friday 2024-02-02), wall-clock second of the day s, and the   *)
(* UTC offset off of its tzinfo in seconds.  Two aware datetimes compare   *)
(* and subtract by their UTC instants; date(), weekday() and replace()     *)
(* work on the wall-clock fields and keep the tzinfo.                      *)
(* Durations are whole seconds; hours are kept in tenths of an hour.       *)
(***************************************************************************)
EXTENDS Integers, Sequences, FiniteSets, TLC

VARIABLES segArgs, segRet, calcArgs, calcRet,
          request, fetch, item_i, grouped_by_period, pc, workbook

vars == <<segArgs, segRet, calcArgs, calcRet,
          request, fetch, item_i, grouped_by_period, pc, workbook>>

\* ---------------------------------------------------------------- bounds
\* last wall-clock day the inputs range over (0 = Fri, 1 = Sat, 2 = Sun, 3 = Mon)
MaxDay == 3
\* longest raw history handed to the accumulator
MaxEvents == 3

\* ------------------------------------------------------------- constants
WORK_START_HOUR == 8
WORK_END_HOUR == 17
\* utcoffset of astimezone(MOSCOW_TZ) for the modelled dates: MSK, +03:00
MSK_OFFSET == 10800
\* utcoffset of a datetime built with replace(tzinfo=MOSCOW_TZ): pytz hands
\* out the zone's first entry, local mean time LMT+2:30
LMT_OFFSET == 9000

DAY == 86400
HOUR == 3600

\* ------------------------------------------------------------- datetimes
DT(d, s, off) == [d |-> d, s |-> s, off |-> off]

\* the absolute instant of an aware datetime, in seconds
Utc(dt) == dt.d * DAY + dt.s - dt.off

\* dt.replace(hour=h, minute=0, second=0, microsecond=0)
ReplaceHour(dt, h) == [dt EXCEPT !.s = h * HOUR]

\* (dt + timedelta(days=1)).replace(hour=WORK_START_HOUR, minute=0, ...)
NextDayWorkStart(dt) == [dt EXCEPT !.d = dt.d + 1, !.s = WORK_START_HOUR * HOUR]

\* datetime.weekday() of the wall-clock date: 0 = Monday .. 6 = Sunday
Weekday(dt) == (dt.d + 4) % 7

MaxDT(a, b) == IF Utc(b) > Utc(a) THEN b ELSE a
MinDT(a, b) == IF Utc(b) < Utc(a) THEN b ELSE a

is_working_day_sunday_only(d) == Weekday(d) # 6

is_working_day(d) == Weekday(d) \notin {5, 6}

\* the while loop of add_working_time_segment, one day per iteration
RECURSIVE SegmentLoop(_, _, _)
SegmentLoop(cur, end_dt, total) ==
    IF cur.d > end_dt.d THEN total
    ELSE IF ~is_working_day(cur)
         THEN SegmentLoop(NextDayWorkStart(cur), end_dt, total)
         ELSE LET day_start == ReplaceHour(cur, WORK_START_HOUR)
                  day_end == ReplaceHour(cur, WORK_END_HOUR)
                  seg_start == MaxDT(cur, day_start)
                  seg_end == MinDT(end_dt, day_end)
                  add == IF Utc(seg_start) < Utc(seg_end)
                         THEN Utc(seg_end) - Utc(seg_start) ELSE 0
              IN SegmentLoop(NextDayWorkStart(cur), end_dt, total + add)

\* seconds of [start_dt, end_dt] inside the Mon-Fri 08:00-17:00 windows
add_working_time_segment(start_dt, end_dt) ==
    IF Utc(end_dt) <= Utc(start_dt) THEN 0
    ELSE SegmentLoop(start_dt, end_dt, 0)

\* ---------------------------------------------- the calendar, by itself
\* wall-clock times of day the calendar inputs are drawn from
SegTimes == {0, 7 * HOUR, 8 * HOUR, 9 * HOUR + 1800, 12 * HOUR,
             17 * HOUR, 18 * HOUR, DAY - 1}
SegInstants == {DT(d, s, MSK_OFFSET) : d \in 0..MaxDay, s \in SegTimes}

Idle == /\ request = <<>> /\ fetch = <<>> /\ item_i = 0
        /\ grouped_by_period = <<>> /\ pc = "idle" /\ workbook = <<>>

InitSeg == /\ segArgs \in SegInstants \X SegInstants
           /\ segRet = -1
           /\ calcArgs = <<>> /\ calcRet = -1
           /\ Idle

CallSegment == /\ segRet = -1
               /\ segRet' = add_working_time_segment(segArgs[1], segArgs[2])
               /\ UNCHANGED <<segArgs, calcArgs, calcRet, request, fetch, item_i,
                              grouped_by_period, pc, workbook>>

NextSeg == CallSegment
SpecSeg == InitSeg /\ [][NextSeg]_vars

\* Reference: the length of the intersection of [a, b] with the windows,
\* day by day in reference-timezone wall-clock seconds.
Wall(dt) == dt.d * DAY + dt.s
Lo(x, y) == IF x < y THEN x ELSE y
Hi(x, y) == IF x > y THEN x ELSE y
DayWindowOverlap(a, b, d) ==
    IF (d + 4) % 7 \in {5, 6} THEN 0
    ELSE Hi(0, Lo(Wall(b), d * DAY + WORK_END_HOUR * HOUR)
               - Hi(Wall(a), d * DAY + WORK_START_HOUR * HOUR))
RECURSIVE SumDays(_, _, _, _)
SumDays(a, b, d, last) ==
    IF d > last THEN 0 ELSE DayWindowOverlap(a, b, d) + SumDays(a, b, d + 1, last)
WindowsOverlap(a, b) == SumDays(a, b, a.d, b.d)

InWindow(dt) == /\ (dt.d + 4) % 7 \notin {5, 6}
                /\ dt.s >= WORK_START_HOUR * HOUR /\ dt.s <= WORK_END_HOUR * HOUR

\* C1: add_working_time_segment(start, end), for two instants of the
\* reference timezone, is the total length of the intersection of
\* [start, end] with the Mon-Fri 08:00-17:00 windows: 0 when end <= start,
\* 0 on a weekend or outside the windows, the span's own length inside one
\* window, and 540 minutes for each full working day covered.
C1_SegmentIsWindowOverlap ==
    segRet >= 0 =>
        LET a == segArgs[1]
            b == segArgs[2]
        IN /\ Wall(b) <= Wall(a) => segRet = 0
           /\ Wall(b) > Wall(a) => segRet = WindowsOverlap(a, b)
           /\ (Wall(b) > Wall(a) /\ a.d = b.d /\ InWindow(a) /\ InWindow(b))
                 => segRet = Wall(b) - Wall(a)
           /\ (\A d \in a.d..b.d : (d + 4) % 7 \in {5, 6}) => segRet = 0
           /\ (a.s = 0 /\ b.s = DAY - 1 /\ a.d <= b.d)
                 => segRet = 540 * 60 * Cardinality({d \in a.d..b.d : (d + 4) % 7 \notin {5, 6}})

\* a span from Friday afternoon over the weekend into Monday has been measured
C1_Witness ==
    /\ segRet = 5 * HOUR + 4 * HOUR
    /\ segArgs[1] = DT(0, 12 * HOUR, MSK_OFFSET)
    /\ segArgs[2] = DT(3, 12 * HOUR, MSK_OFFSET)

\* ------------------------------------------------ the timeline accumulator
\* str.lower() on the status names the model uses
Lower(str) ==
    CASE str = "In Progress" -> "in progress"
      [] str = "Done" -> "done"
      [] str = "IN PROGRESS" -> "in progress"
      [] OTHER -> str

\* A raw history entry is [date, statusName]: date is <<t>>, the instant of
\* an ISO string "....Z" in seconds UTC since day 0 00:00 UTC, or <<>> when
\* the entry has no date; statusName is "" when data.newValue.statusName is
\* missing or empty.
Entry(date, statusName) == [date |-> date, statusName |-> statusName]

\* fromisoformat(...).astimezone(MOSCOW_TZ)
parse_iso_to_msk(t) ==
    DT((t + MSK_OFFSET) \div DAY, (t + MSK_OFFSET) % DAY, MSK_OFFSET)

\* the loop that builds `events`, dropping entries without date or status
RECURSIVE BuildEvents(_)
BuildEvents(history) ==
    IF history = <<>> THEN <<>>
    ELSE LET e == Head(history)
             new_status == Lower(e.statusName)
         IN IF e.date = <<>> \/ new_status = ""
            THEN BuildEvents(Tail(history))
            ELSE <<<<parse_iso_to_msk(e.date[1]), new_status>>>>
                 \o BuildEvents(Tail(history))

\* number of leading events of a sorted list that stay in front of x
RECURSIVE CountBefore(_, _)
CountBefore(sorted, x) ==
    IF sorted = <<>> \/ Utc(Head(sorted)[1]) > Utc(x[1]) THEN 0
    ELSE 1 + CountBefore(Tail(sorted), x)

RECURSIVE CountStrictlyBefore(_, _)
CountStrictlyBefore(sorted, x) ==
    IF sorted = <<>> \/ Utc(Head(sorted)[1]) >= Utc(x[1]) THEN 0
    ELSE 1 + CountStrictlyBefore(Tail(sorted), x)

InsertUnstable(sorted, x) ==
    LET k == CountStrictlyBefore(sorted, x)
    IN SubSeq(sorted, 1, k) \o <<x>> \o SubSeq(sorted, k + 1, Len(sorted))

\* list.sort is stable: an event goes behind the events with an equal key
InsertStable(sorted, x) ==
    LET k == CountBefore(sorted, x)
    IN SubSeq(sorted, 1, k) \o <<x>> \o SubSeq(sorted, k + 1, Len(sorted))

\* events.sort(key=lambda x: x[0])
RECURSIVE SortInto(_, _)
SortInto(sorted, rest) ==
    IF rest = <<>> THEN sorted
    ELSE SortInto(InsertStable(sorted, Head(rest)), Tail(rest))
SortEvents(events) == SortInto(<<>>, events)

period_start_of(day) == DT(day, 0, LMT_OFFSET)
period_end_of(day) == DT(day, 23 * HOUR + 59 * 60 + 59, LMT_OFFSET)

\* the first loop: the state in effect at period_start
RECURSIVE ScanStart(_, _, _, _)
ScanStart(events, period_start, target_status, in_target_status) ==
    IF events = <<>> THEN in_target_status
    ELSE IF Utc(Head(events)[1]) <= Utc(period_start)
         THEN ScanStart(Tail(events), period_start, target_status,
                        Head(events)[2] = target_status)
         ELSE in_target_status

StateAtStartAssumed(events, period_start, target_status) ==
    ScanStart(events, period_start, target_status, TRUE)

StateAtStart(events, period_start, target_status) ==
    ScanStart(events, period_start, target_status, FALSE)

PastEndNever(dt, period_end) == FALSE

\* the test `dt > period_end` of the second loop
PastEnd(dt, period_end) == Utc(dt) > Utc(period_end)

BreakWithoutClosing(in_target_status, last_ts, period_end) == 0

\* the loop meets an event past period_end: close the open segment, break
CloseAtBreak(in_target_status, last_ts, period_end) ==
    IF in_target_status THEN add_working_time_segment(last_ts, period_end) ELSE 0

ExhaustedWithoutClosing(in_target_status, last_ts, period_end) == 0

\* the for/else: the loop ran out of events
CloseAtExhaustion(in_target_status, last_ts, period_end) ==
    IF Utc(last_ts) < Utc(period_end) /\ in_target_status
    THEN add_working_time_segment(last_ts, period_end) ELSE 0

\* the second loop, from event i on
RECURSIVE Walk(_, _, _, _, _, _, _, _)
Walk(events, i, period_start, period_end, target_status, in_target_status, last_ts, total_td) ==
    IF i > Len(events)
    THEN total_td + CloseAtExhaustion(in_target_status, last_ts, period_end)
    ELSE LET dt == events[i][1]
             status == events[i][2]
         IN IF Utc(dt) <= Utc(period_start)
            THEN Walk(events, i + 1, period_start, period_end, target_status,
                      in_target_status, last_ts, total_td)
            ELSE IF PastEnd(dt, period_end)
            THEN total_td + CloseAtBreak(in_target_status, last_ts, period_end)
            ELSE Walk(events, i + 1, period_start, period_end, target_status,
                      status = target_status, dt,
                      total_td + IF in_target_status
                                 THEN add_working_time_segment(last_ts, dt) ELSE 0)

\* total_td in seconds; the function returns total_td.total_seconds() / 60
calculate_in_progress_time_for_period(history, period_start_day, period_end_day, status_name) ==
    LET target_status == Lower(status_name)
        period_start == period_start_of(period_start_day)
        period_end == period_end_of(period_end_day)
        built == BuildEvents(history)
    IN IF built = <<>> THEN 0
       ELSE LET events == SortEvents(built)
            IN Walk(events, 1, period_start, period_end, target_status,
                    StateAtStart(events, period_start, target_status),
                    period_start, 0)

\* instants of the raw entries, given by their Moscow wall-clock time:
\* Fri 00:15, Fri 16:30, Sat 00:10, Mon 09:00
Z(d, s) == d * DAY + s - MSK_OFFSET
EntryInstants == {Z(0, 900), Z(0, 16 * HOUR + 1800), Z(1, 600), Z(3, 9 * HOUR)}
RawEntries == {Entry(<<t>>, st) : t \in EntryInstants, st \in {"In Progress", "Done"}}
              \cup {Entry(<<>>, "In Progress")}
RECURSIVE SeqsUpTo(_, _)
SeqsUpTo(S, n) ==
    IF n = 0 THEN {<<>>}
    ELSE LET shorter == SeqsUpTo(S, n - 1)
         IN shorter \cup {Append(h, x) : h \in {q \in shorter : Len(q) = n - 1}, x \in S}
Histories == SeqsUpTo(RawEntries, MaxEvents)
StatusNames == {"IN PROGRESS"}

InitCalc == /\ calcArgs \in Histories \X (0..MaxDay) \X (0..MaxDay) \X StatusNames
            /\ calcRet = -1
            /\ segArgs = <<>> /\ segRet = -1
            /\ Idle

CallCalculate ==
    /\ calcRet = -1
    /\ calcRet' = calculate_in_progress_time_for_period(
                      calcArgs[1], calcArgs[2], calcArgs[3], calcArgs[4])
    /\ UNCHANGED <<segArgs, segRet, calcArgs, request, fetch, item_i,
                   grouped_by_period, pc, workbook>>

NextCalc == CallCalculate
SpecCalc == InitCalc /\ [][NextCalc]_vars

\* the arguments of the call, as the function sees them
ArgEvents == SortEvents(BuildEvents(calcArgs[1]))
ArgStart == period_start_of(calcArgs[2])
ArgEnd == period_end_of(calcArgs[3])
ArgTarget == Lower(calcArgs[4])
EventsUpTo(events, t) == SelectSeq(events, LAMBDA e : Utc(e[1]) <= Utc(t))
WorkingDays(first, last) == {d \in first..last : (d + 4) % 7 \notin {5, 6}}

EventsBeforeStart == EventsUpTo(ArgEvents, ArgStart)
EventsInPeriod ==
    SelectSeq(ArgEvents, LAMBDA e : Utc(e[1]) > Utc(ArgStart) /\ Utc(e[1]) <= Utc(ArgEnd))
EventsAfterEnd == SelectSeq(ArgEvents, LAMBDA e : Utc(e[1]) > Utc(ArgEnd))
\* the call has returned: before it the result slot holds -1
Called == calcRet >= 0
Calc(history) ==
    calculate_in_progress_time_for_period(history, calcArgs[2], calcArgs[3], calcArgs[4])

\* C2: when the most recent event at or before period.start has the target
\* status and no event lies in (period.start, period.end], the result is
\* the whole calendar-clipped length of [period.start, period.end]: nine
\* hours for each working day of the period, with or without a later event.
C2_FullPeriodWhenInTargetThroughout ==
    (/\ Called
     /\ EventsBeforeStart # <<>>
     /\ EventsBeforeStart[Len(EventsBeforeStart)][2] = ArgTarget
     /\ EventsInPeriod = <<>>)
    => /\ calcRet = add_working_time_segment(ArgStart, ArgEnd)
       /\ calcRet = 540 * 60 * Cardinality(WorkingDays(calcArgs[2], calcArgs[3]))

\* in target since before a Friday-to-Monday period, next event after its end
C2_Witness ==
    /\ Called
    /\ calcArgs[2] = 0 /\ calcArgs[3] = 1
    /\ EventsBeforeStart # <<>>
    /\ EventsBeforeStart[Len(EventsBeforeStart)][2] = ArgTarget
    /\ EventsInPeriod = <<>>
    /\ EventsAfterEnd # <<>>
    /\ calcRet = 540 * 60

\* a status other than the target
OtherStatus == "Done"

\* C3: with no event at or before period.start the state at period.start
\* is not-in-target: the result is the one of the same timeline with a
\* non-target event put at period.start, nothing before the first in-period
\* event is counted, and it is 0 when no in-period event has the target status.
C3_NotInTargetWithoutEarlierEvent ==
    (Called /\ ArgEvents # <<>> /\ EventsBeforeStart = <<>>)
    => /\ calcRet = Calc(<<Entry(<<Utc(ArgStart)>>, OtherStatus)>> \o calcArgs[1])
       /\ EventsInPeriod # <<>>
            => calcRet <= add_working_time_segment(EventsInPeriod[1][1], ArgEnd)
       /\ (\A i \in 1..Len(EventsInPeriod) : EventsInPeriod[i][2] # ArgTarget)
            => calcRet = 0

\* first event Friday 16:30 (not the target), target from Monday 09:00 on:
\* the eight hours left of Monday
C3_Witness ==
    /\ Called
    /\ calcArgs[2] = 0 /\ calcArgs[3] = 3
    /\ EventsBeforeStart = <<>>
    /\ Len(EventsInPeriod) = 2
    /\ EventsInPeriod[1][2] # ArgTarget
    /\ EventsInPeriod[2][2] = ArgTarget
    /\ calcRet = 8 * HOUR

\* C4: period.start and period.end carry the UTC offset of the normalized
\* events: an event on the start date at wall-clock hh:mm lies hh:mm after
\* period.start, and a segment from period.start to an event is clipped
\* against the 08:00-17:00 windows of the reference timezone.
C4_PeriodInReferenceTimezone ==
    Called =>
        \A i \in 1..Len(ArgEvents) :
            LET e == ArgEvents[i][1]
            IN /\ e.d = ArgStart.d => Utc(e) - Utc(ArgStart) = e.s
               /\ Utc(e) > Utc(ArgStart) =>
                    add_working_time_segment(ArgStart, e)
                      = WindowsOverlap(DT(ArgStart.d, 0, MSK_OFFSET), e)

\* C5: a period whose end date is before its start date gives 0.
C5_InvertedPeriodIsZero ==
    (Called /\ calcArgs[3] < calcArgs[2]) => calcRet = 0

\* Monday-to-Friday period, in target before Monday, one event after Monday 00:00
C5_Witness ==
    /\ Called
    /\ calcArgs[2] = 3 /\ calcArgs[3] = 0
    /\ EventsBeforeStart # <<>>
    /\ EventsBeforeStart[Len(EventsBeforeStart)][2] = ArgTarget
    /\ EventsAfterEnd # <<>>
    /\ \E i \in 1..Len(ArgEvents) : Utc(ArgEvents[i][1]) > Utc(ArgStart)
    /\ calcRet = 0

\* the entries of a raw history that are not followed by an entry with the
\* same date
RECURSIVE KeepLastOfTies(_)
KeepLastOfTies(history) ==
    IF history = <<>> THEN <<>>
    ELSE LET e == Head(history)
             rest == Tail(history)
         IN IF e.date # <<>> /\ \E j \in 1..Len(rest) :
                                   rest[j].date = e.date /\ Lower(rest[j].statusName) # ""
            THEN KeepLastOfTies(rest)
            ELSE <<e>> \o KeepLastOfTies(rest)
SameInstant(events, t) == SelectSeq(events, LAMBDA e : Utc(e[1]) = t)

\* C6: events with one timestamp keep their order of the history list, and
\* the last of them decides the state from that instant on: the result is
\* the one of the history with only the last event of each timestamp.
C6_StableTieBreak ==
    Called =>
        /\ \A i \in 1..Len(ArgEvents) :
              SameInstant(ArgEvents, Utc(ArgEvents[i][1]))
                = SameInstant(BuildEvents(calcArgs[1]), Utc(ArgEvents[i][1]))
        /\ calcRet = Calc(KeepLastOfTies(calcArgs[1]))

\* two events at Friday 16:30, non-target then target, decide a Friday
C6_Witness ==
    /\ Called
    /\ calcArgs[2] = 0 /\ calcArgs[3] = 0
    /\ Len(calcArgs[1]) = 2
    /\ calcArgs[1][1].date = <<Z(0, 16 * HOUR + 1800)>>
    /\ calcArgs[1][2].date = <<Z(0, 16 * HOUR + 1800)>>
    /\ Lower(calcArgs[1][1].statusName) # ArgTarget
    /\ Lower(calcArgs[1][2].statusName) = ArgTarget
    /\ calcRet = 1800

\* the raw history without the entries dated after instant t (seconds UTC)
HistoryUpTo(history, t) ==
    SelectSeq(history, LAMBDA e : e.date = <<>> \/ e.date[1] <= t)

\* C10: the result does not depend on the events after period.end: it is
\* the result of the timeline cut after period.end, both for the instant
\* the function takes for period.end and for 23:59:59 of the end date in
\* the reference timezone.
C10_IndependentOfLaterEvents ==
    Called =>
        /\ calcRet = Calc(HistoryUpTo(calcArgs[1], Utc(ArgEnd)))
        /\ calcRet = Calc(HistoryUpTo(calcArgs[1], Z(calcArgs[3], DAY - 1)))

\* in target from Friday 16:30, period Friday, a later event on Monday
C10_Witness ==
    /\ Called
    /\ calcArgs[2] = 0 /\ calcArgs[3] = 0
    /\ EventsAfterEnd # <<>>
    /\ EventsInPeriod # <<>>
    /\ EventsInPeriod[Len(EventsInPeriod)][2] = ArgTarget
    /\ calcRet = 1800

\* ------------------------------------------------------------ process_data
\* longest item list and longest period list of a request
MaxItems == 2
MaxPeriods == 2

\* round(x, 1) on a double rounds an exact half by the double's own error.
\* HalfUp holds the k up to 27 hours for which mins = (360 k + 180) / 60
\* seconds gives round(mins / 60, 1) = (k + 1) / 10 and not k / 10.
HalfUp ==
    {0, 4, 5, 6, 7, 10, 13, 15, 17, 18, 23, 24, 27, 28, 29, 33, 34, 37, 38, 39,
     41, 44, 46, 47, 49, 51, 54, 56, 57, 59, 61, 64, 66, 67, 69, 71, 74, 76, 77,
     79, 80, 81, 85, 86, 87, 90, 91, 95, 96, 97, 100, 101, 105, 106, 107, 110,
     111, 115, 116, 117, 120, 121, 125, 126, 127, 130, 131, 135, 136, 137, 140,
     141, 145, 146, 147, 150, 151, 155, 156, 157, 160, 163, 165, 167, 168, 170,
     173, 175, 177, 178, 180, 183, 185, 187, 188, 190, 193, 195, 197, 198, 200,
     203, 205, 207, 208, 210, 213, 215, 217, 218, 220, 223, 225, 227, 228, 230,
     233, 235, 237, 238, 240, 243, 245, 247, 248, 250, 253, 255, 257, 258, 260,
     263, 265, 267, 268, 270}

\* hours = round(mins / 60, 1), in tenths of an hour, from total_td in seconds
RoundHours(seconds) ==
    LET k == seconds \div 360
        r == seconds % 360
    IN IF r < 180 THEN k
       ELSE IF r > 180 THEN k + 1
       ELSE IF k \in HalfUp THEN k + 1 ELSE k

\* the literal display name of an item without assignee (line 439)
NOT_SPECIFIED == "<not specified>"
\* the default of request.status_name (line 443)
DEFAULT_STATUS == "in progress"

\* An item is [key, workspaceId, workitemId, assignee, name]: key n stands
\* for the task key "T-n" and 0 for a missing one, the two ids are 0 when
\* missing, assignee is <<displayName>> or <<>>.
Item(key, ws, wi, assignee, name) ==
    [key |-> key, workspaceId |-> ws, workitemId |-> wi,
     assignee |-> assignee, name |-> name]

\* A history record of the tracker is [type, date, statusName].
Rec(type, date, statusName) == [type |-> type, date |-> date, statusName |-> statusName]

\* filtered_history: only the StatusUpdated records
filter_history(history_data) ==
    LET kept == SelectSeq(history_data, LAMBDA e : e.type = "StatusUpdated")
    IN [i \in 1..Len(kept) |-> Entry(kept[i].date, kept[i].statusName)]

\* grouped_by_period = {(p.start, p.end): defaultdict(list) for p in periods}:
\* one entry per distinct period, in order of first appearance
RECURSIVE InitGroups(_, _)
InitGroups(periods, acc) ==
    IF periods = <<>> THEN acc
    ELSE LET p == Head(periods)
         IN IF \E i \in 1..Len(acc) : acc[i].period = p
            THEN InitGroups(Tail(periods), acc)
            ELSE InitGroups(Tail(periods), Append(acc, [period |-> p, group |-> <<>>]))

\* group[display_name].append(row) on a defaultdict(list)
AppendToGroup(group, display_name, row) ==
    IF \E i \in 1..Len(group) : group[i].display_name = display_name
    THEN [i \in 1..Len(group) |->
            IF group[i].display_name = display_name
            THEN [group[i] EXCEPT !.tasks = Append(@, row)]
            ELSE group[i]]
    ELSE Append(group, [display_name |-> display_name, tasks |-> <<row>>])

\* grouped_by_period[(period.start, period.end)][display_name].append(row)
AddRow(grouped, period, display_name, row) ==
    [i \in 1..Len(grouped) |->
        IF grouped[i].period = period
        THEN [grouped[i] EXCEPT !.group = AppendToGroup(@, display_name, row)]
        ELSE grouped[i]]

RowWantedAlsoZero(hours) == hours >= 0

\* the test `hours > 0`
RowWanted(hours) == hours > 0

display_name_of(item) ==
    IF item.assignee = <<>> THEN NOT_SPECIFIED ELSE item.assignee[1]

\* the loop `for period in request.periods` for one item
RECURSIVE ProcessPeriods(_, _, _, _, _)
ProcessPeriods(grouped, item, filtered_history, periods, status_to_search) ==
    IF periods = <<>> THEN grouped
    ELSE LET period == Head(periods)
             mins == calculate_in_progress_time_for_period(
                         filtered_history, period[1], period[2], status_to_search)
             hours == RoundHours(mins)
             next == IF RowWanted(hours)
                     THEN AddRow(grouped, period, display_name_of(item),
                                 <<item.key, item.name, hours>>)
                     ELSE grouped
         IN ProcessPeriods(next, item, filtered_history, Tail(periods), status_to_search)

\* ------------------------------------------------------ save_to_excel_multi
\* sorted(tasks, key=lambda x: x[0]), stable
RECURSIVE SortTasks(_, _)
SortTasks(sorted, rest) ==
    IF rest = <<>> THEN sorted
    ELSE LET x == Head(rest)
             k == Cardinality({i \in 1..Len(sorted) : sorted[i][1] <= x[1]})
         IN SortTasks(SubSeq(sorted, 1, k) \o <<x>> \o SubSeq(sorted, k + 1, Len(sorted)),
                      Tail(rest))

display_hours_raw(hours) == hours

\* task[2] if task[2] >= 1 else 1, in tenths
display_hours(hours) == IF hours >= 10 THEN hours ELSE 10

RECURSIVE SumSeq(_)
SumSeq(q) == IF q = <<>> THEN 0 ELSE Head(q) + SumSeq(Tail(q))

\* round(total_hours / 8, 1) in tenths of a day: total_hours is a float sum
\* of tenths, so an exact half goes either way with the summation error
total_days_of(total_hours) ==
    LET k == total_hours \div 8
        r == total_hours % 8
    IN IF r < 4 THEN {k} ELSE IF r > 4 THEN {k + 1} ELSE {k, k + 1}

\* the rows written for one display name, starting at worksheet row `row`
Block(display_name, tasks, row) ==
    LET display_hours_list == [i \in 1..Len(tasks) |-> display_hours(tasks[i][3])]
        total_hours == SumSeq(display_hours_list)
    IN [display_name |-> display_name,
        first_row |-> row,
        merged |-> Len(tasks) > 1,
        total_hours |-> total_hours,
        total_days |-> total_days_of(total_hours),
        tasks_count |-> Len(tasks),
        rows |-> [i \in 1..Len(tasks) |->
                    <<tasks[i][1], tasks[i][2], display_hours_list[i]>>]]

\* the loop over grouped_data.items() of one sheet
RECURSIVE SheetBlocks(_, _, _)
SheetBlocks(group, row, blocks) ==
    IF group = <<>> THEN blocks
    ELSE LET kept == SelectSeq(Head(group).tasks, LAMBDA t : t[3] > 0)
         IN IF kept = <<>> THEN SheetBlocks(Tail(group), row, blocks)
            ELSE LET tasks == SortTasks(<<>>, kept)
                 IN SheetBlocks(Tail(group), row + Len(tasks),
                                Append(blocks, Block(Head(group).display_name, tasks, row)))

\* one worksheet per period, named start_end
save_to_excel_multi(grouped) ==
    [i \in 1..Len(grouped) |->
        [sheet_name |-> grouped[i].period,
         blocks |-> SheetBlocks(grouped[i].group, 1, <<>>)]]

\* ------------------------------------------------------------ the request
Fri0900 == <<Z(0, 9 * HOUR)>>
Fri1630 == <<Z(0, 16 * HOUR + 1800)>>
Fri1657 == <<Z(0, 16 * HOUR + 57 * 60)>>
Fri1800 == <<Z(0, 18 * HOUR)>>
Mon1658 == <<Z(3, 16 * HOUR + 58 * 60)>>
\* what the tracker may answer for an item's history
Responses ==
    {<<Rec("Commented", Fri0900, "In Progress"), Rec("StatusUpdated", Fri1630, "In Progress")>>,
     <<Rec("StatusUpdated", Fri1657, "In Progress"), Rec("StatusUpdated", Fri1800, "Done"),
       Rec("StatusUpdated", Mon1658, "In Progress")>>}
ItemMenu ==
    {Item(1, 7, 11, <<"Ann">>, "Task one"),
     Item(2, 7, 12, <<"Ann">>, "Task two"),
     Item(3, 7, 13, <<>>, "Task three"),
     Item(4, 7, 0, <<"Bob">>, "No workitem id")}
PeriodMenu == {<<0, 0>>, <<3, 3>>}
\* status_name of the request: "" stands for None
RequestStatusNames == {"", "In Progress"}

Request(items, periods, status_name) ==
    [items |-> items, periods |-> periods, status_name |-> status_name]

Init == /\ request \in {Request(i, p, st) : i \in SeqsUpTo(ItemMenu, MaxItems),
                                            p \in SeqsUpTo(PeriodMenu, MaxPeriods),
                                            st \in RequestStatusNames}
        /\ fetch = <<>>
        /\ item_i = 0
        /\ grouped_by_period = <<>>
        /\ pc = "idle"
        /\ workbook = <<>>
        /\ segArgs = <<>> /\ segRet = -1
        /\ calcArgs = <<>> /\ calcRet = -1

Untouched == UNCHANGED <<segArgs, segRet, calcArgs, calcRet, request>>

\* `if not request.periods: raise HTTPException(400)`
RejectEmptyPeriods ==
    /\ pc = "idle" /\ request.periods = <<>>
    /\ pc' = "rejected"
    /\ UNCHANGED <<fetch, item_i, grouped_by_period, workbook>>
    /\ Untouched

\* the set-up before the loop over the items
Begin ==
    /\ pc = "idle" /\ request.periods # <<>>
    /\ grouped_by_period' = InitGroups(request.periods, <<>>)
    /\ item_i' = 1
    /\ pc' = "items"
    /\ UNCHANGED <<fetch, workbook>>
    /\ Untouched

\* fetch[i] records how item i went: skipped, failed, or ok with the
\* history_data the tracker returned
Outcome(how, history_data) == [how |-> how, history_data |-> history_data]

HasIds(item) == item.key # 0 /\ item.workspaceId # 0 /\ item.workitemId # 0

\* an item without key, workspace id or workitem id is passed over
SkipItem ==
    /\ pc = "items" /\ item_i <= Len(request.items)
    /\ ~HasIds(request.items[item_i])
    /\ fetch' = Append(fetch, Outcome("skipped", <<>>))
    /\ item_i' = item_i + 1
    /\ UNCHANGED <<grouped_by_period, pc, workbook>>
    /\ Untouched

AbortOnRetrievalFailure == "aborted"

\* `except requests.RequestException: ... continue`
OnRetrievalFailure == "items"

\* requests.get or raise_for_status raises for this item
RetrievalFails ==
    /\ pc = "items" /\ item_i <= Len(request.items)
    /\ HasIds(request.items[item_i])
    /\ fetch' = Append(fetch, Outcome("failed", <<>>))
    /\ item_i' = item_i + 1
    /\ pc' = OnRetrievalFailure
    /\ UNCHANGED <<grouped_by_period, workbook>>
    /\ Untouched

\* the history arrives and every period is computed for the item
ProcessItem ==
    /\ pc = "items" /\ item_i <= Len(request.items)
    /\ HasIds(request.items[item_i])
    /\ \E history_data \in Responses :
          /\ fetch' = Append(fetch, Outcome("ok", history_data))
          /\ grouped_by_period' =
                ProcessPeriods(grouped_by_period, request.items[item_i],
                               filter_history(history_data), request.periods,
                               IF request.status_name = "" THEN DEFAULT_STATUS
                               ELSE request.status_name)
    /\ item_i' = item_i + 1
    /\ UNCHANGED <<pc, workbook>>
    /\ Untouched

\* after the last item the report is written
Save ==
    /\ pc = "items" /\ item_i > Len(request.items)
    /\ workbook' = save_to_excel_multi(grouped_by_period)
    /\ pc' = "done"
    /\ UNCHANGED <<fetch, item_i, grouped_by_period>>
    /\ Untouched

Next == \/ RejectEmptyPeriods
        \/ Begin
        \/ SkipItem
        \/ RetrievalFails
        \/ ProcessItem
        \/ Save

Spec == Init /\ [][Next]_vars

StatusToSearch == IF request.status_name = "" THEN DEFAULT_STATUS ELSE request.status_name
Handled == 1..Len(fetch)
Running == pc \in {"items", "done"}

\* the groups a request of the given items and histories alone leads to
RECURSIVE GroupsOf(_, _, _)
GroupsOf(items, outcomes, grouped) ==
    IF items = <<>> THEN grouped
    ELSE GroupsOf(Tail(items), Tail(outcomes),
                  IF Head(outcomes).how = "ok"
                  THEN ProcessPeriods(grouped, Head(items),
                                      filter_history(Head(outcomes).history_data),
                                      request.periods, StatusToSearch)
                  ELSE grouped)
Retrieved == {k \in Handled : fetch[k].how # "failed"}
RECURSIVE Restrict(_, _, _)
Restrict(q, keep, k) ==
    IF k > Len(q) THEN <<>>
    ELSE (IF k \in keep THEN <<q[k]>> ELSE <<>>) \o Restrict(q, keep, k + 1)

\* C7: a failed retrieval never aborts process_data: the loop goes on to
\* the next item, every item is handled before the report is written, and
\* the groups are those of the request without the failing items.
C7_RetrievalFailureSkipsItem ==
    /\ pc # "aborted"
    /\ Running =>
        /\ item_i = Len(fetch) + 1
        /\ pc = "done" => Len(fetch) = Len(request.items)
        /\ grouped_by_period =
              GroupsOf(Restrict(request.items, Retrieved, 1),
                       Restrict(fetch, Retrieved, 1),
                       InitGroups(request.periods, <<>>))

\* the first item failed, the second one was retrieved and has its row
C7_Witness ==
    /\ pc = "done"
    /\ Len(fetch) = 2
    /\ fetch[1].how = "failed"
    /\ fetch[2].how = "ok"
    /\ \E g \in 1..Len(grouped_by_period) :
          \E n \in 1..Len(grouped_by_period[g].group) :
             \E r \in 1..Len(grouped_by_period[g].group[n].tasks) :
                grouped_by_period[g].group[n].tasks[r][1] = request.items[2].key

HoursOf(k, period) ==
    RoundHours(calculate_in_progress_time_for_period(
                   filter_history(fetch[k].history_data), period[1], period[2],
                   StatusToSearch))
GroupOfPeriod(period) ==
    (CHOOSE g \in {grouped_by_period[i] : i \in 1..Len(grouped_by_period)} :
        g.period = period).group
RowsIn(group) == SumSeq([n \in 1..Len(group) |-> Len(group[n].tasks)])

\* C8: every stored row has hours > 0; an (item, period) pair with rounded
\* hours 0 adds no row, and a pair with positive hours adds the row
\* [key, task name, hours] under the item's assignee display name in the
\* group of that period.
C8_OnlyPositiveRows ==
    Running =>
        LET hours == [k \in Handled |-> [j \in 1..Len(request.periods) |->
                         IF fetch[k].how = "ok"
                         THEN HoursOf(k, request.periods[j]) ELSE 0]]
        IN /\ \A g \in 1..Len(grouped_by_period) :
                 \A n \in 1..Len(grouped_by_period[g].group) :
                    \A r \in 1..Len(grouped_by_period[g].group[n].tasks) :
                       grouped_by_period[g].group[n].tasks[r][3] > 0
           /\ \A k \in Handled : \A j \in 1..Len(request.periods) :
                 hours[k][j] > 0 =>
                    \E n \in 1..Len(GroupOfPeriod(request.periods[j])) :
                       LET e == GroupOfPeriod(request.periods[j])[n]
                       IN /\ e.display_name = display_name_of(request.items[k])
                          /\ \E r \in 1..Len(e.tasks) :
                                e.tasks[r] = <<request.items[k].key, request.items[k].name,
                                               hours[k][j]>>
           /\ \A g \in 1..Len(grouped_by_period) :
                 RowsIn(grouped_by_period[g].group) =
                    Cardinality({kj \in Handled \X (1..Len(request.periods)) :
                                    /\ request.periods[kj[2]] = grouped_by_period[g].period
                                    /\ hours[kj[1]][kj[2]] > 0})

\* an item in the target status for two minutes of Monday leaves Monday's
\* group empty; its three minutes of Friday are a row of 0.1 hours
C8_Witness ==
    /\ pc = "done"
    /\ request.periods = <<<<3, 3>>, <<0, 0>>>>
    /\ Len(fetch) = 1
    /\ fetch[1].how = "ok"
    /\ Len(fetch[1].history_data) = 3
    /\ HoursOf(1, <<3, 3>>) = 0
    /\ grouped_by_period[1].group = <<>>
    /\ grouped_by_period[2].group =
          <<[display_name |-> display_name_of(request.items[1]),
             tasks |-> <<<<request.items[1].key, request.items[1].name, 1>>>>]>>

\* C9: the report shows a row with hours < 1 as exactly 1 and any other
\* row unchanged, and an assignee's total hours is the sum of the values
\* shown.
C9_MinimumDisplayRule ==
    pc = "done" =>
        \A i \in 1..Len(workbook) : \A b \in 1..Len(workbook[i].blocks) :
            LET block == workbook[i].blocks[b]
                entry == CHOOSE e \in {grouped_by_period[i].group[n] :
                                         n \in 1..Len(grouped_by_period[i].group)} :
                            e.display_name = block.display_name
                tasks == SortTasks(<<>>, SelectSeq(entry.tasks, LAMBDA t : t[3] > 0))
            IN /\ Len(block.rows) = Len(tasks)
               /\ \A r \in 1..Len(tasks) :
                     /\ tasks[r][3] < 10 => block.rows[r][3] = 10
                     /\ tasks[r][3] >= 10 => block.rows[r][3] = tasks[r][3]
               /\ block.total_hours = SumSeq([r \in 1..Len(tasks) |-> block.rows[r][3]])

\* Ann's Friday: 0.5 hours on one task and 0.1 on another, each shown as 1,
\* total 2; her Monday: 9 hours shown as 9
C9_Witness ==
    /\ pc = "done"
    /\ request.periods = <<<<0, 0>>, <<3, 3>>>>
    /\ Len(grouped_by_period[1].group) = 1
    /\ grouped_by_period[1].group[1].tasks = <<<<2, "Task two", 5>>, <<1, "Task one", 1>>>>
    /\ Len(workbook[1].blocks) = 1
    /\ workbook[1].blocks[1].rows = <<<<1, "Task one", 10>>, <<2, "Task two", 10>>>>
    /\ workbook[1].blocks[1].total_hours = 20
    /\ Len(workbook[2].blocks) = 1
    /\ workbook[2].blocks[1].rows = <<<<2, "Task two", 90>>>>
    /\ workbook[2].blocks[1].total_hours = 90

\* all rows of a group, whatever the display name
RECURSIVE AllTasks(_)
AllTasks(group) ==
    IF group = <<>> THEN <<>> ELSE Head(group).tasks \o AllTasks(Tail(group))
DistinctKeys ==
    \A a, b \in 1..Len(request.items) :
        a # b => request.items[a].key # request.items[b].key

\* C11: when the items of the request have distinct task keys, each
\* period's group holds at most one row per task key, for any list of
\* periods, also one that names the same (start, end) period twice; so the
\* report counts each task once in the period's tasks count.
C11_OneRowPerKeyAndPeriod ==
    (Running /\ DistinctKeys) =>
        /\ \A g \in 1..Len(grouped_by_period) :
              LET tasks == AllTasks(grouped_by_period[g].group)
              IN \A a, b \in 1..Len(tasks) : a # b => tasks[a][1] # tasks[b][1]
        /\ \A i \in 1..Len(workbook) : \A b \in 1..Len(workbook[i].blocks) :
              workbook[i].blocks[b].tasks_count
                 = Cardinality({workbook[i].blocks[b].rows[r][1] :
                                   r \in 1..Len(workbook[i].blocks[b].rows)})
====
